---------------------------- MODULE Spec2Model ----------------------------
(***************************************************************************)
(* Model of YouTubeSummaryApp (src/main.py): the text-reduction pipeline   *)
(* clean_text -> split_text -> summarizer / extract_key_sentences, and the *)
(* process_video driver around it.                                         *)
(*                                                                         *)
(* A text is a sequence of one-character strings.  The pure functions are  *)
(* operators computed the way the Python code computes them; the external  *)
(* collaborators (yt_dlp, whisper, the summarization pipeline, the file    *)
(* system) are nondeterministic choices over the outcomes they can have.   *)
(***************************************************************************)
EXTENDS Integers, Sequences, FiniteSets, TLC

VARIABLES
    text,         \* the text argument of the function under call
    num_points,   \* num_points / num_sentences argument
    max_length,   \* max_length argument of split_text
    cleaned,      \* value of clean_text (generate_summary rebinds text to it)
    chunks,       \* value of split_text
    result,       \* returned key points (extract_key_sentences / generate_summary)
    pc,           \* position in the function under call
    idx,          \* generate_summary: index of the chunk the for loop is at
    summaries,    \* generate_summary: the summaries list
    calls,        \* log of the summarizer's calls: <<chunk index, output>>
    failed,       \* the summarizer raised during this generate_summary
    vpc,          \* position in process_video
    audioOnDisk,  \* the downloaded audio is on disk
    pathValid,    \* audio_file names the file the download left on disk
    ret,          \* the dict process_video returned, as its set of keys
    exc           \* the call whose exception process_video caught, or "none"

vars == <<text, num_points, max_length, cleaned, chunks, result, pc, idx,
          summaries, calls, failed, vpc, audioOnDisk, pathValid, ret, exc>>

---------------------------------------------------------------------------
(* Program constants *)

\* split_text(self, text, max_length=1000)
DefaultMaxLength == 1000
\* generate_summary(self, text, num_points=10)
DefaultNumPoints == 10
\* if len(chunk.split()) > 50
MinTokens == 50
\* if len(s.strip()) > 20
MinSentenceLen == 20

(* Bounds of the model *)

\* longest text of the exhaustively enumerated inputs
MaxTextLen == 5
\* largest explicit max_length tried on the enumerated inputs
MaxMaxLength == 4
\* most palette segments concatenated into a long input
MaxSegments == 3
\* largest num_points / num_sentences argument tried
MaxPoints == 3

---------------------------------------------------------------------------
(* Characters *)

Letters == {"a", "b"}
Digits == {"1"}
Whitespace == {" ", "\t", "\n"}
Punctuation == {".", ",", "!", "?", "-"}

\* \s of re, and the whitespace of str.strip() and str.split()
IsSpace(c) == c \in Whitespace

\* \w of re on str: alphanumerics and the underscore
IsWord(c) == c \in Letters \/ c \in Digits \/ c = "_"

\* mutant: the class written with [a-zA-Z0-9] for \w, which drops the underscore
Kept_no_underscore(c) ==
    c \in Letters \/ c \in Digits \/ IsSpace(c) \/ c \in Punctuation

\* a character outside the class [^\w\s\.\,\!\?\-] survives the second re.sub
Kept(c) == IsWord(c) \/ IsSpace(c) \/ c \in Punctuation

---------------------------------------------------------------------------
(* Sequence helpers *)

Take(s, n) == SubSeq(s, 1, IF n < Len(s) THEN n ELSE Len(s))

RECURSIVE Concat(_)
Concat(ss) == IF ss = <<>> THEN <<>> ELSE Head(ss) \o Concat(Tail(ss))

\* str.strip(): drop leading and trailing whitespace
strip(t) ==
    LET n == Len(t)
        nonws == {i \in 1..n : ~IsSpace(t[i])}
    IN  IF nonws = {} THEN <<>>
        ELSE LET lo == CHOOSE i \in nonws : \A j \in 1..(i-1) : IsSpace(t[j])
                 hi == CHOOSE i \in nonws : \A j \in (i+1)..n : IsSpace(t[j])
             IN  SubSeq(t, lo, hi)

\* text.split('.'): the pieces between the dots, empty pieces included
split_dot(t) ==
    LET n == Len(t)
        dots == {i \in 1..n : t[i] = "."}
        k == Cardinality(dots)
        \* position of the m-th dot; 0 before the first, n+1 after the last
        dot(m) == IF m = 0 THEN 0
                  ELSE IF m = k + 1 THEN n + 1
                  ELSE CHOOSE i \in dots : Cardinality({j \in dots : j < i}) = m - 1
    IN  [m \in 1..(k+1) |-> SubSeq(t, dot(m-1) + 1, dot(m) - 1)]

\* len(chunk.split()): the number of whitespace-delimited tokens
token_count(t) ==
    Cardinality({i \in 1..Len(t) :
                    ~IsSpace(t[i]) /\ (i = 1 \/ IsSpace(t[i-1]))})

\* mutant: reverse=True left out, shortest first
sorted_by_len_asc(items) ==
    LET n == Len(items)
        rank(i) == Cardinality({j \in 1..n : Len(items[j]) < Len(items[i])})
                   + Cardinality({j \in 1..(i-1) : Len(items[j]) = Len(items[i])})
                   + 1
    IN  [p \in 1..n |-> items[CHOOSE i \in 1..n : rank(i) = p]]

\* sorted(items, key=len, reverse=True): stable, longest first
sorted_by_len_desc(items) ==
    LET n == Len(items)
        rank(i) == Cardinality({j \in 1..n : Len(items[j]) > Len(items[i])})
                   + Cardinality({j \in 1..(i-1) : Len(items[j]) = Len(items[i])})
                   + 1
    IN  [p \in 1..n |-> items[CHOOSE i \in 1..n : rank(i) = p]]

---------------------------------------------------------------------------
(* clean_text *)

\* re.sub(r'\s+', ' ', text): every run of whitespace becomes one space
collapse_whitespace(t) ==
    LET marked == [i \in 1..Len(t) |->
                     IF IsSpace(t[i])
                     THEN IF i > 1 /\ IsSpace(t[i-1]) THEN "" ELSE " "
                     ELSE t[i]]
    IN  SelectSeq(marked, LAMBDA c : c # "")

\* re.sub(r'[^\w\s\.\,\!\?\-]', '', text)
remove_symbols(t) == SelectSeq(t, Kept)

clean_text(t) == strip(remove_symbols(collapse_whitespace(t)))

---------------------------------------------------------------------------
(* split_text *)

\* mutant: the else branch starts the new buffer without emitting the old one
RECURSIVE split_loop_drop(_, _, _, _, _)
split_loop_drop(sentences, i, out, current_chunk, maxlen) ==
    IF i > Len(sentences)
    THEN IF current_chunk # <<>> THEN Append(out, current_chunk) ELSE out
    ELSE LET sentence == sentences[i]
         IN  IF Len(current_chunk) + Len(sentence) < maxlen
             THEN split_loop_drop(sentences, i + 1, out,
                                  current_chunk \o sentence \o <<".">>, maxlen)
             ELSE split_loop_drop(sentences, i + 1, out,
                                  sentence \o <<".">>, maxlen)

\* mutant: the length test written with <= for <
RECURSIVE split_loop_le(_, _, _, _, _)
split_loop_le(sentences, i, out, current_chunk, maxlen) ==
    IF i > Len(sentences)
    THEN IF current_chunk # <<>> THEN Append(out, current_chunk) ELSE out
    ELSE LET sentence == sentences[i]
         IN  IF Len(current_chunk) + Len(sentence) <= maxlen
             THEN split_loop_le(sentences, i + 1, out,
                                current_chunk \o sentence \o <<".">>, maxlen)
             ELSE split_loop_le(sentences, i + 1,
                                IF current_chunk # <<>>
                                THEN Append(out, current_chunk) ELSE out,
                                sentence \o <<".">>, maxlen)

\* the for loop over sentences[i..], then the final "if current_chunk"
RECURSIVE split_loop(_, _, _, _, _)
split_loop(sentences, i, out, current_chunk, maxlen) ==
    IF i > Len(sentences)
    THEN IF current_chunk # <<>> THEN Append(out, current_chunk) ELSE out
    ELSE LET sentence == sentences[i]
         IN  IF Len(current_chunk) + Len(sentence) < maxlen
             THEN split_loop(sentences, i + 1, out,
                             current_chunk \o sentence \o <<".">>, maxlen)
             ELSE split_loop(sentences, i + 1,
                             IF current_chunk # <<>>
                             THEN Append(out, current_chunk) ELSE out,
                             sentence \o <<".">>, maxlen)

split_text(t, maxlen) == split_loop(split_dot(t), 1, <<>>, <<>>, maxlen)

---------------------------------------------------------------------------
(* extract_key_sentences *)

\* [s.strip() for s in sentences if len(s.strip()) > 20]
long_sentences(t) ==
    LET sentences == split_dot(t)
        stripped == [i \in 1..Len(sentences) |-> strip(sentences[i])]
    IN  SelectSeq(stripped, LAMBDA s : Len(s) > MinSentenceLen)

\* sorted(...)[:num_sentences], then [s for s in key_sentences if s]
extract_key_sentences(t, num_sentences) ==
    LET key_sentences == Take(sorted_by_len_desc(long_sentences(t)), num_sentences)
    IN  SelectSeq(key_sentences, LAMBDA s : s # <<>>)

---------------------------------------------------------------------------
(* Inputs *)

Alphabet == {"a", " ", "\n", ".", "#", "_"}

\* every text over Alphabet of at most MaxTextLen characters
SmallTexts == UNION {[1..k -> Alphabet] : k \in 0..MaxTextLen}

\* n one-letter words separated by single spaces
Words(n) == [i \in 1..(2*n - 1) |-> IF i % 2 = 1 THEN "a" ELSE " "]

\* one word of n letters
Word(n) == [i \in 1..n |-> "b"]

\* segments long texts are built from: sentences around the admission rule's
\* and the extractor's thresholds, one that fills a chunk, and noise
Palette ==
    { Words(DefaultMaxLength \div 2) \o <<".">>,
      Words(MinTokens + 1) \o <<".">>,
      Words(MinTokens) \o <<".">>,
      <<" ">> \o Word(MinSentenceLen + 1) \o <<".">>,
      <<" ">> \o Word(MinSentenceLen) \o <<" ", ".">>,
      <<" ", "#", " ">> }

LongTexts == {Concat(ss) : ss \in UNION {[1..k -> Palette] : k \in 0..MaxSegments}}

NoValue == <<>>

---------------------------------------------------------------------------
(* SpecText: the three pure functions, each called once on an input *)

InitText ==
    /\ text \in SmallTexts \cup LongTexts
    /\ num_points = 0
    /\ max_length = DefaultMaxLength
    /\ cleaned = NoValue
    /\ chunks = NoValue
    /\ result = NoValue
    /\ pc = "ready"
    /\ idx = 0
    /\ summaries = <<>>
    /\ calls = <<>>
    /\ failed = FALSE
    /\ vpc = "none"
    /\ audioOnDisk = FALSE
    /\ pathValid = FALSE
    /\ ret = {}
    /\ exc = "none"

CallCleanText ==
    /\ pc = "ready"
    /\ cleaned' = clean_text(text)
    /\ pc' = "clean_text"
    /\ UNCHANGED <<text, num_points, max_length, chunks, result, idx, summaries,
                   calls, failed, vpc, audioOnDisk, pathValid, ret, exc>>

CallSplitText ==
    /\ pc = "ready"
    /\ \E m \in (1..MaxMaxLength) \cup {DefaultMaxLength} :
          /\ max_length' = m
          /\ chunks' = split_text(text, m)
    /\ pc' = "split_text"
    /\ UNCHANGED <<text, num_points, cleaned, result, idx, summaries,
                   calls, failed, vpc, audioOnDisk, pathValid, ret, exc>>

CallExtractKeySentences ==
    /\ pc = "ready"
    /\ \E n \in 0..MaxPoints :
          /\ num_points' = n
          /\ result' = extract_key_sentences(text, n)
    /\ pc' = "extract_key_sentences"
    /\ UNCHANGED <<text, max_length, cleaned, chunks, idx, summaries,
                   calls, failed, vpc, audioOnDisk, pathValid, ret, exc>>

NextText == CallCleanText \/ CallSplitText \/ CallExtractKeySentences

SpecText == InitText /\ [][NextText]_vars

---------------------------------------------------------------------------
(* generate_summary *)

\* what the summarization pipeline can return for a chunk
SummaryOutputs == {<<"s", "1">>, <<"s", "2">>}

videoVars == <<vpc, audioOnDisk, pathValid, ret, exc>>

\* mutant: the admission test written with >= for >
admitted_at_least(chunk) == token_count(chunk) >= MinTokens

\* if len(chunk.split()) > 50
admitted(chunk) == token_count(chunk) > MinTokens

\* mutant: no fallback, the summaries are returned however few they are
summary_result_no_fallback(sums, t, n) == Take(sums, n)

\* the return value once the loop is over: the fallback's key sentences
\* when the summaries are fewer than num_points, else summaries[:num_points]
summary_result(sums, t, n) ==
    IF Len(sums) < n THEN extract_key_sentences(t, n) ELSE Take(sums, n)

\* text = self.clean_text(text); chunks = self.split_text(text); summaries = []
generate_summary_enter ==
    /\ pc = "call"
    /\ cleaned' = clean_text(text)
    /\ chunks' = split_text(cleaned', DefaultMaxLength)
    /\ summaries' = <<>>
    /\ idx' = 1
    /\ pc' = "loop"
    /\ UNCHANGED <<text, num_points, max_length, result, calls, failed>>
    /\ UNCHANGED videoVars

\* a chunk of at most 50 tokens: the loop goes on to the next chunk
loop_skip ==
    /\ pc = "loop"
    /\ idx <= Len(chunks)
    /\ ~admitted(chunks[idx])
    /\ idx' = idx + 1
    /\ UNCHANGED <<text, num_points, max_length, cleaned, chunks, result, pc,
                   summaries, calls, failed>>
    /\ UNCHANGED videoVars

\* the summarizer returns a summary of the chunk, which is appended
loop_summarize ==
    /\ pc = "loop"
    /\ idx <= Len(chunks)
    /\ admitted(chunks[idx])
    /\ \E summary \in SummaryOutputs :
          /\ summaries' = Append(summaries, summary)
          /\ calls' = Append(calls, <<idx, summary>>)
    /\ idx' = idx + 1
    /\ UNCHANGED <<text, num_points, max_length, cleaned, chunks, result, pc,
                   failed>>
    /\ UNCHANGED videoVars

\* mutant: the failure is swallowed per chunk and the loop goes on
loop_summarizer_swallowed ==
    /\ pc = "loop"
    /\ idx <= Len(chunks)
    /\ admitted(chunks[idx])
    /\ failed' = TRUE
    /\ idx' = idx + 1
    /\ UNCHANGED <<text, num_points, max_length, cleaned, chunks, result, pc,
                   summaries, calls>>
    /\ UNCHANGED videoVars

\* the summarizer raises: nothing in generate_summary catches it
loop_summarizer_raises ==
    /\ pc = "loop"
    /\ idx <= Len(chunks)
    /\ admitted(chunks[idx])
    /\ failed' = TRUE
    /\ pc' = "raised"
    /\ UNCHANGED <<text, num_points, max_length, cleaned, chunks, result, idx,
                   summaries, calls>>
    /\ UNCHANGED videoVars

\* the loop is over: return the fallback's output or the first summaries
generate_summary_return ==
    /\ pc = "loop"
    /\ idx > Len(chunks)
    /\ result' = summary_result(summaries, cleaned, num_points)
    /\ pc' = "returned"
    /\ UNCHANGED <<text, num_points, max_length, cleaned, chunks, idx,
                   summaries, calls, failed>>
    /\ UNCHANGED videoVars

GenerateSummary ==
    \/ generate_summary_enter
    \/ loop_skip
    \/ loop_summarize
    \/ loop_summarizer_raises
    \/ generate_summary_return

\* SpecSummary: one call of generate_summary(text, num_points)
InitSummary ==
    /\ text \in LongTexts
    /\ num_points \in 0..MaxPoints
    /\ max_length = DefaultMaxLength
    /\ cleaned = NoValue
    /\ chunks = NoValue
    /\ result = NoValue
    /\ pc = "call"
    /\ idx = 0
    /\ summaries = <<>>
    /\ calls = <<>>
    /\ failed = FALSE
    /\ vpc = "none"
    /\ audioOnDisk = FALSE
    /\ pathValid = FALSE
    /\ ret = {}
    /\ exc = "none"

NextSummary == GenerateSummary

SpecSummary == InitSummary /\ [][NextSummary]_vars

---------------------------------------------------------------------------
(* process_video *)

summaryVars == <<text, num_points, max_length, cleaned, chunks, result, pc,
                 idx, summaries, calls, failed>>

\* download_audio returns: the audio is on disk; audio_file names it only
\* when the .webm/.m4a replacement yields the name the postprocessor wrote
download_audio_returns ==
    /\ vpc = "start"
    /\ audioOnDisk' = TRUE
    /\ pathValid' \in BOOLEAN
    /\ vpc' = "downloaded"
    /\ UNCHANGED <<ret, exc>>
    /\ UNCHANGED summaryVars

download_audio_raises ==
    /\ vpc = "start"
    /\ exc' = "download_audio"
    /\ vpc' = "except"
    /\ UNCHANGED <<audioOnDisk, pathValid, ret>>
    /\ UNCHANGED summaryVars

\* transcribe_audio returns the text; generate_summary(text) is called next
transcribe_audio_returns ==
    /\ vpc = "downloaded"
    /\ pathValid
    /\ text' \in LongTexts
    /\ num_points' = DefaultNumPoints
    /\ pc' = "call"
    /\ vpc' = "summarizing"
    /\ UNCHANGED <<max_length, cleaned, chunks, result, idx, summaries, calls,
                   failed>>
    /\ UNCHANGED <<audioOnDisk, pathValid, ret, exc>>

\* whisper raises (always so when audio_file names no file)
transcribe_audio_raises ==
    /\ vpc = "downloaded"
    /\ exc' = "transcribe_audio"
    /\ vpc' = "except"
    /\ UNCHANGED <<audioOnDisk, pathValid, ret>>
    /\ UNCHANGED summaryVars

\* generate_summary raised inside the try
generate_summary_raised ==
    /\ vpc = "summarizing"
    /\ pc = "raised"
    /\ exc' = "generate_summary"
    /\ vpc' = "except"
    /\ UNCHANGED <<audioOnDisk, pathValid, ret>>
    /\ UNCHANGED summaryVars

\* key_points is bound; if os.path.exists(audio_file): os.remove(audio_file);
\* return the dict of title, transcription and key_points
remove_and_return ==
    /\ vpc = "summarizing"
    /\ pc = "returned"
    /\ audioOnDisk' = IF audioOnDisk /\ pathValid THEN FALSE ELSE audioOnDisk
    /\ ret' = {"title", "transcription", "key_points"}
    /\ vpc' = "returned"
    /\ UNCHANGED <<pathValid, exc>>
    /\ UNCHANGED summaryVars

\* os.remove raises on the existing file
remove_raises ==
    /\ vpc = "summarizing"
    /\ pc = "returned"
    /\ audioOnDisk /\ pathValid
    /\ exc' = "os.remove"
    /\ vpc' = "except"
    /\ UNCHANGED <<audioOnDisk, pathValid, ret>>
    /\ UNCHANGED summaryVars

\* mutant: the handler also removes the audio file, as a finally would
except_handler_removes ==
    /\ vpc = "except"
    /\ ret' = {"error"}
    /\ audioOnDisk' = FALSE
    /\ vpc' = "returned"
    /\ UNCHANGED <<pathValid, exc>>
    /\ UNCHANGED <<text, num_points, max_length, cleaned, chunks, result, pc,
                   idx, summaries, calls, failed>>

\* except Exception as e: return {"error": str(e)}
except_handler ==
    /\ vpc = "except"
    /\ ret' = {"error"}
    /\ vpc' = "returned"
    /\ UNCHANGED <<audioOnDisk, pathValid, exc>>
    /\ UNCHANGED summaryVars

\* SpecVideo: one call of process_video(youtube_url)
InitVideo ==
    /\ text = NoValue
    /\ num_points = 0
    /\ max_length = DefaultMaxLength
    /\ cleaned = NoValue
    /\ chunks = NoValue
    /\ result = NoValue
    /\ pc = "idle"
    /\ idx = 0
    /\ summaries = <<>>
    /\ calls = <<>>
    /\ failed = FALSE
    /\ vpc = "start"
    /\ audioOnDisk = FALSE
    /\ pathValid = FALSE
    /\ ret = {}
    /\ exc = "none"

NextVideo ==
    \/ download_audio_returns
    \/ download_audio_raises
    \/ transcribe_audio_returns
    \/ transcribe_audio_raises
    \/ (vpc = "summarizing" /\ GenerateSummary)
    \/ generate_summary_raised
    \/ remove_and_return
    \/ remove_raises
    \/ except_handler

SpecVideo == InitVideo /\ [][NextVideo]_vars

---------------------------------------------------------------------------
(* Properties of generate_summary, under SpecSummary *)

\* the indices, in order, of the chunks of t that the admission rule lets
\* through: those of more than 50 whitespace-delimited tokens
AdmittedChunks(t) ==
    LET ch == split_text(t, DefaultMaxLength)
    IN  SelectSeq([i \in 1..Len(ch) |-> i],
                  LAMBDA i : token_count(ch[i]) > MinTokens)

\* the summarizer's outputs, in call order
Outputs == [k \in 1..Len(calls) |-> calls[k][2]]

\* C1: generate_summary returns at most num_points items; the summarizer
\* was called on exactly the chunks of the cleaned text of more than 50
\* tokens, in chunk order; with S its outputs, the result is the first
\* num_points of S when len(S) >= num_points and otherwise
\* extract_key_sentences(cleaned text, num_points).
C1_SummaryOrFallback ==
    pc = "returned" =>
        /\ [k \in 1..Len(calls) |-> calls[k][1]] = AdmittedChunks(clean_text(text))
        /\ Len(result) <= num_points
        /\ result = IF Len(Outputs) >= num_points
                    THEN SubSeq(Outputs, 1, num_points)
                    ELSE extract_key_sentences(clean_text(text), num_points)

\* more summaries than asked for: the result is a proper prefix of them
C1_Witness ==
    /\ pc = "returned"
    /\ num_points >= 1
    /\ Len(calls) > num_points
    /\ result = SubSeq(Outputs, 1, num_points)

\* C2: once the summarizer has raised on a chunk, generate_summary has
\* raised: it has not returned, and no list of key points is its result.
C2_SummarizerFailurePropagates ==
    failed => pc = "raised" /\ pc # "returned" /\ result = NoValue

\* the summarizer raised on a later chunk, with summaries already collected
C2_Witness ==
    /\ failed
    /\ pc = "raised"
    /\ Len(summaries) >= 1
    /\ idx > 1

\* C8 as stated: whenever the summarizer outputs and the sentences of
\* trimmed length over 20 together number at least num_points, the result
\* has exactly num_points items.
C8_ShortOnlyIfTogetherShort ==
    (pc = "returned"
        /\ Len(calls) + Len(long_sentences(clean_text(text))) >= num_points)
    => Len(result) = num_points

\* C8 amended: the result has fewer than num_points items only if the
\* summarizer outputs number fewer than num_points and the sentences of
\* trimmed length over 20 number fewer than num_points: whenever either
\* count alone is at least num_points, the result has exactly num_points
\* items.
C8_ShortOnlyIfEachShort ==
    (pc = "returned"
        /\ \/ Len(calls) >= num_points
           \/ Len(long_sentences(clean_text(text))) >= num_points)
    => Len(result) = num_points

\* too few summaries, discarded for a fallback that fills the count
C8_Witness ==
    /\ pc = "returned"
    /\ Len(calls) >= 1
    /\ Len(calls) < num_points
    /\ Len(long_sentences(clean_text(text))) >= num_points
    /\ Len(result) = num_points

---------------------------------------------------------------------------
(* Properties of process_video, under SpecVideo *)

\* C10: process_video never raises (an exception raised inside it is on
\* its way to the handler or has become the returned dict, and a failure of
\* generate_summary is picked up by it); when it returns key_points the
\* audio file is gone; when a call after the download raised, it returns
\* only the key 'error' and the audio file is still on disk.
C10_ErrorDictAndAudioKept ==
    /\ vpc \in {"start", "downloaded", "summarizing", "except", "returned"}
    /\ exc # "none" => vpc = "except" \/ (vpc = "returned" /\ ret = {"error"})
    /\ failed => vpc = "summarizing" \/ exc = "generate_summary"
    /\ vpc = "returned" =>
          /\ "key_points" \in ret => ~audioOnDisk /\ exc = "none"
          /\ exc \in {"transcribe_audio", "generate_summary", "os.remove"} =>
                ret = {"error"} /\ audioOnDisk
          /\ exc = "download_audio" => ret = {"error"}

\* the summarizer raised after a successful download and transcription
C10_Witness ==
    /\ vpc = "returned"
    /\ exc = "generate_summary"
    /\ failed
    /\ ret = {"error"}
    /\ audioOnDisk

---------------------------------------------------------------------------
(* Properties of the pure functions, under SpecText *)

\* C3: clean_text is idempotent: cleaning the value clean_text returned
\* gives that value back.
C3_CleanTextIdempotent ==
    pc = "clean_text" => clean_text(cleaned) = cleaned

Alnum == Letters \cup Digits

NoOuterWhitespace(t) ==
    t # <<>> => ~IsSpace(t[1]) /\ ~IsSpace(t[Len(t)])

\* C9 as stated: every character of clean_text(text) is alphanumeric, a
\* space or one of . , ! ? - (the underscore is removed with the other
\* symbols), and the value has no leading or trailing whitespace.
C9_OnlyAlnumSpacePunct ==
    pc = "clean_text" =>
        /\ \A i \in 1..Len(cleaned) : cleaned[i] \in Alnum \cup {" "} \cup Punctuation
        /\ NoOuterWhitespace(cleaned)

\* C9 amended: every character of clean_text(text) is alphanumeric, an
\* underscore, a space or one of . , ! ? -; the non-space characters of the
\* value are exactly the input's characters of those classes, in order
\* (every other character is removed, the underscore is kept); and the
\* value has no leading or trailing whitespace.
C9_OnlyWordSpacePunct ==
    pc = "clean_text" =>
        /\ \A i \in 1..Len(cleaned) :
              cleaned[i] \in Alnum \cup {"_", " "} \cup Punctuation
        /\ SelectSeq(cleaned, LAMBDA c : c # " ")
             = SelectSeq(text, LAMBDA c : c \in Alnum \cup {"_"} \cup Punctuation)
        /\ NoOuterWhitespace(cleaned)

\* an input with leading whitespace, a disallowed symbol and an underscore
C9_Witness ==
    /\ pc = "clean_text"
    /\ text # <<>> /\ IsSpace(text[1])
    /\ \E i \in 1..Len(text) : text[i] = "#"
    /\ \E i \in 1..Len(cleaned) : cleaned[i] = "_"

\* the sentences of a chunk: its pieces between dots, without the empty
\* piece after the terminator appended last
ChunkSentences(chunk) ==
    LET pieces == split_dot(chunk) IN SubSeq(pieces, 1, Len(pieces) - 1)

\* C4: split_text loses and duplicates nothing: every chunk ends with an
\* appended terminator, and the sentences of the chunks, in order, are the
\* pieces of text.split('.') in order, each once.
C4_SplitTextLossless ==
    pc = "split_text" =>
        /\ \A i \in 1..Len(chunks) : chunks[i][Len(chunks[i])] = "."
        /\ Concat([i \in 1..Len(chunks) |-> ChunkSentences(chunks[i])])
             = split_dot(text)
        /\ Concat(chunks) = text \o <<".">>

\* several chunks, one of them holding several sentences
C4_Witness ==
    /\ pc = "split_text"
    /\ Len(chunks) >= 2
    /\ \E i \in 1..Len(chunks) : Len(ChunkSentences(chunks[i])) >= 2

\* C7 as stated: every chunk is at most max_length long, terminators
\* included, except a chunk of a single sentence whose own length exceeds
\* max_length.
C7_ChunkWithinMaxLength ==
    pc = "split_text" =>
        \A i \in 1..Len(chunks) :
            \/ Len(chunks[i]) <= max_length
            \/ /\ Len(ChunkSentences(chunks[i])) = 1
               /\ Len(ChunkSentences(chunks[i])[1]) > max_length

\* C7 amended: every chunk is at most max_length long, terminators
\* included, except a chunk of a single sentence whose own length is at
\* least max_length (with its terminator it exceeds max_length); a chunk of
\* two or more sentences is within the bound.
C7_ChunkWithinMaxLengthOrLongSentence ==
    pc = "split_text" =>
        \A i \in 1..Len(chunks) :
            \/ Len(chunks[i]) <= max_length
            \/ /\ Len(ChunkSentences(chunks[i])) = 1
               /\ Len(ChunkSentences(chunks[i])[1]) >= max_length

\* a chunk over the bound beside a chunk of several sentences that fills it
C7_Witness ==
    /\ pc = "split_text"
    /\ \E i \in 1..Len(chunks) : Len(chunks[i]) > max_length
    /\ \E i \in 1..Len(chunks) :
          /\ Len(ChunkSentences(chunks[i])) >= 2
          /\ Len(chunks[i]) = max_length

\* C5: extract_key_sentences returns at most num_sentences items, each a
\* trimmed piece of text.split('.') of trimmed length over 20, ordered by
\* non-increasing length.
C5_ExtractBoundedLongSorted ==
    pc = "extract_key_sentences" =>
        /\ Len(result) <= num_points
        /\ \A i \in 1..Len(result) :
              /\ \E j \in 1..Len(split_dot(text)) :
                    result[i] = strip(split_dot(text)[j])
              /\ Len(result[i]) > MinSentenceLen
        /\ \A i \in 1..(Len(result) - 1) : Len(result[i]) >= Len(result[i+1])

\* the count cuts the ranking, and the ranked order is not the textual one
C5_Witness ==
    /\ pc = "extract_key_sentences"
    /\ Len(result) = 2
    /\ Len(long_sentences(text)) > 2
    /\ Len(result[1]) > Len(result[2])
    /\ result # Take(long_sentences(text), 2)

\* C6: on the empty text split_text returns no chunks and
\* extract_key_sentences returns no key points.
C6_EmptyTextEmptyResults ==
    /\ (pc = "split_text" /\ text = <<>>) => chunks = <<>>
    /\ (pc = "extract_key_sentences" /\ text = <<>>) => result = <<>>

=============================================================================
